---------------------------- MODULE Spec2Model ----------------------------
(***************************************************************************)
(* Model of the incremental slicing-and-elaboration driver (src/script.py):*)
(* hole discovery, caching by file existence, the two external tool calls, *)
(* the per-job status stream and the JSON-array result ledger.             *)
(*                                                                         *)
(* Files are modelled by what the driver can observe of them.  The ledger  *)
(* is a sequence of BYTES, because append_json_array works on byte offsets *)
(* and on decoded characters at the same time.  The byte alphabet is       *)
(*   "[" "]" "," "{" "}"      JSON structure                               *)
(*   "n"                      white space (newline / indentation)          *)
(*   "q"                      the double quote that delimits a string      *)
(*   "L2" "L3" "C"            lead bytes of a 2- and 3-byte UTF-8 sequence *)
(*                            and the continuation byte                    *)
(*   "0"                      the NUL byte a seek past the end leaves      *)
(*   anything else            an ASCII character inside a string           *)
(***************************************************************************)
EXTENDS Integers, Sequences, FiniteSets, TLC

(***************************************************************************)
(* Bounds of the model.                                                    *)
(***************************************************************************)
MaxRuns == 2
MaxKills == 1

(***************************************************************************)
(* Small helpers.                                                          *)
(***************************************************************************)
Max(a, b) == IF a >= b THEN a ELSE b
Min(a, b) == IF a <= b THEN a ELSE b
Range(s) == {s[i] : i \in 1..Len(s)}
Contains(s, x) == \E i \in 1..Len(s) : s[i] = x
Count(s, x) == Cardinality({i \in 1..Len(s) : s[i] = x})

(***************************************************************************)
(* UTF-8.  bytes.decode("utf-8", errors="ignore"): a well-formed multi-byte*)
(* sequence becomes one character "U", an ASCII byte becomes itself, and   *)
(* every byte that does not start or complete a sequence is dropped.       *)
(***************************************************************************)
Width(b) == IF b = "L2" THEN 2 ELSE IF b = "L3" THEN 3 ELSE 1

WellFormedAt(b, i) ==
    /\ i + Width(b[i]) - 1 <= Len(b)
    /\ \A j \in (i + 1)..(i + Width(b[i]) - 1) : b[j] = "C"

\* what byte i of b contributes to the decoded text
Decoded(b, i) ==
    IF b[i] = "C" THEN "dropped"
    ELSE IF b[i] \in {"L2", "L3"}
         THEN (IF WellFormedAt(b, i) THEN "U" ELSE "dropped")
    ELSE b[i]

Kept(x) == x # "dropped"

Decode(b) == SelectSeq([i \in 1..Len(b) |-> Decoded(b, i)], Kept)

\* strict decoding, as json.load does on bytes: no byte may be dropped
RECURSIVE StrictFrom(_, _)
StrictFrom(b, i) ==
    IF i > Len(b) THEN TRUE
    ELSE IF b[i] \in {"C", "0"} THEN FALSE
    ELSE IF b[i] \in {"L2", "L3"}
         THEN WellFormedAt(b, i) /\ StrictFrom(b, i + Width(b[i]))
    ELSE StrictFrom(b, i + 1)

ValidUtf8(b) == StrictFrom(b, 1)

\* str.rfind: 0-based index of the last occurrence, -1 when there is none
rfind(s, x) ==
    IF Contains(s, x)
    THEN (CHOOSE i \in 1..Len(s) : s[i] = x /\ \A j \in (i + 1)..Len(s) : s[j] # x) - 1
    ELSE -1

(***************************************************************************)
(* JSON text of the ledger.  An object is  { q <string bytes> q }  : the   *)
(* record's fields are folded into one string.  json.load of a file: the   *)
(* text is an array when it is white space, "[", a possibly empty list of  *)
(* objects separated by "," (white space allowed around each), "]" and     *)
(* white space up to the end of the file.                                  *)
(***************************************************************************)
RECURSIVE SkipWs(_, _)
SkipWs(b, i) == IF i <= Len(b) /\ b[i] = "n" THEN SkipWs(b, i + 1) ELSE i

At(b, i) == IF i >= 1 /\ i <= Len(b) THEN b[i] ELSE "EOF"

\* index of the quote that closes the string opened just before position i
RECURSIVE CloseQuote(_, _)
CloseQuote(b, i) ==
    IF i > Len(b) THEN 0
    ELSE IF b[i] = "q" THEN i ELSE CloseQuote(b, i + 1)

\* a failed parse; items holds the objects that were read before the failure
Fail(acc) == [ok |-> FALSE, items |-> acc]

\* parses a non-empty object list, the closing bracket and the end of file
RECURSIVE ParseItems(_, _, _)
ParseItems(b, i, acc) ==
    IF At(b, i) # "{" \/ At(b, i + 1) # "q" THEN Fail(acc)
    ELSE LET k == CloseQuote(b, i + 2) IN
         IF k = 0 \/ At(b, k + 1) # "}" THEN Fail(acc)
         ELSE LET item == SubSeq(b, i + 2, k - 1)
                  j == SkipWs(b, k + 2)
              IN  IF At(b, j) = ","
                  THEN ParseItems(b, SkipWs(b, j + 1), Append(acc, item))
                  ELSE IF At(b, j) = "]" /\ SkipWs(b, j + 1) > Len(b)
                       THEN [ok |-> TRUE, items |-> Append(acc, item)]
                       ELSE Fail(Append(acc, item))

ParseArray(b) ==
    IF ~ValidUtf8(b) THEN Fail(<<>>)
    ELSE LET i == SkipWs(b, 1) IN
         IF At(b, i) # "[" THEN Fail(<<>>)
         ELSE LET j == SkipWs(b, i + 1) IN
              IF At(b, j) = "]"
              THEN IF SkipWs(b, j + 1) > Len(b)
                   THEN [ok |-> TRUE, items |-> <<>>]
                   ELSE Fail(<<>>)
              ELSE ParseItems(b, j, <<>>)

(***************************************************************************)
(* The corpus: certificates in the order os.walk yields them.  A line of a *)
(* certificate is reduced to what holes_in_alethe looks at: whether it     *)
(* holds HOLE_MARKER and the step name STEP_NAME_RE extracts (<<>> when    *)
(* the pattern does not match).  The second certificate has a non-ASCII    *)
(* file name (one 3-byte character).                                       *)
(***************************************************************************)
CertName == << <<"a">>, <<"L3", "C", "C">> >>

Certs == 1..Len(CertName)

Line(m, nm) == [marker |-> m, name |-> nm]

CertLines ==
    << << Line(FALSE, <<"t">>), Line(TRUE, <<"h">>), Line(TRUE, <<"h", ".", "s">>),
          Line(TRUE, <<"h">>) >>,
       << Line(TRUE, <<>>), Line(TRUE, <<"h">>), Line(TRUE, <<"g">>) >> >>

(***************************************************************************)
(* holes_in_alethe: the (name, line number) pairs of the marker lines      *)
(* whose step name has no ".", then deduplicated by name, first occurrence *)
(* kept.                                                                   *)
(***************************************************************************)
RECURSIVE CollectHoles(_, _)
CollectHoles(lines, i) ==
    IF i > Len(lines) THEN <<>>
    ELSE IF lines[i].marker /\ lines[i].name # <<>> /\ ~Contains(lines[i].name, ".")
         THEN << <<lines[i].name, i>> >> \o CollectHoles(lines, i + 1)
         ELSE CollectHoles(lines, i + 1)

RECURSIVE Uniq(_, _, _)
Uniq(hs, i, seen) ==
    IF i > Len(hs) THEN <<>>
    ELSE IF hs[i][1] \notin seen
         THEN <<hs[i]>> \o Uniq(hs, i + 1, seen \cup {hs[i][1]})
         ELSE Uniq(hs, i + 1, seen)

\* the scan without the deduplication of lines 39-44
holes_in_alethe_all(lines) == CollectHoles(lines, 1)

holes_in_alethe(lines) == Uniq(CollectHoles(lines, 1), 1, {})

Jobs == UNION {{<<c, h[1]>> : h \in Range(holes_in_alethe(CertLines[c]))} : c \in Certs}

(***************************************************************************)
(* Result records and their JSON text.                                     *)
(***************************************************************************)
\* a count, written in unary with the given mark
Tally(k, mark) == [i \in 1..k |-> mark]

EntryStr(e) ==
    CertName[e.alethe] \o <<":">> \o e.hole \o <<":">>
      \o << IF e.ok THEN "k" ELSE "x" >> \o Tally(e.success, "s") \o Tally(e.failed, "f")
      \o << IF e.panicked THEN "p" ELSE "-", IF e.timeout THEN "t" ELSE "-" >>

\* json.dumps(entry, ensure_ascii=False, indent=2)
dumps(e) == <<"{", "q">> \o EntryStr(e) \o <<"q", "}">>

\* json.dumps([entry], ensure_ascii=False, indent=2)
dumps_list(e) == <<"[", "n">> \o dumps(e) \o <<"n", "]">>

(***************************************************************************)
(* append_json_array.  A file is [exists, bytes].  The function is split   *)
(* into the plan it computes (what is truncated, the offset it seeks to,   *)
(* the bytes it writes there, whether it raises) and the write itself, so  *)
(* that an interrupted write can stop after any prefix of the bytes.       *)
(***************************************************************************)
step == 1024

NoFile == [exists |-> FALSE, bytes |-> <<>>]

\* f.seek(pos); f.read(n)
ReadAt(b, pos, n) == SubSeq(b, pos + 1, Min(Len(b), pos + n))

\* f.seek(off); f.write(data): a seek past the end leaves a gap of NUL bytes
WriteAt(b, off, data) ==
    LET padded == IF off > Len(b) THEN b \o [i \in 1..(off - Len(b)) |-> "0"] ELSE b
    IN  SubSeq(padded, 1, off) \o data \o SubSeq(padded, off + Len(data) + 1, Len(padded))

\* the backward scan of lines 74-77
RECURSIVE ScanBack(_, _, _)
ScanBack(b, pos, chunk) ==
    IF ~Contains(chunk, "]") /\ pos > 0
    THEN LET np == Max(0, pos - step)
         IN  ScanBack(b, np, Decode(ReadAt(b, np, Min(step, np + step))) \o chunk)
    ELSE [pos |-> pos, chunk |-> chunk]

AppendPlan(file, entry) ==
    IF ~file.exists \/ Len(file.bytes) = 0
    THEN \* lines 58-62 and 65-68: a new or empty file gets the whole array
         [base |-> <<>>, at |-> 0, data |-> Append(dumps_list(entry), "n"),
          raises |-> FALSE]
    ELSE LET size == Len(file.bytes)
             pos0 == Max(0, size - step)
             scan == ScanBack(file.bytes, pos0, Decode(ReadAt(file.bytes, pos0, size)))
             last_bracket == rfind(scan.chunk, "]")
         IN  IF last_bracket = -1
             THEN \* lines 80-90: the file is truncated, then json.dump writes
                  \* str to a file opened "rb+", which raises TypeError on the
                  \* first write: nothing is written back
                  [base |-> <<>>, at |-> 0, data |-> <<>>, raises |-> TRUE]
             ELSE \* lines 91-94
                  [base |-> file.bytes, at |-> scan.pos + last_bracket,
                   data |-> <<",", "n">> \o dumps(entry) \o <<"n", "]">>,
                   raises |-> FALSE]

append_json_array(file, entry) ==
    LET p == AppendPlan(file, entry)
    IN  [file |-> [exists |-> TRUE, bytes |-> WriteAt(p.base, p.at, p.data)],
         raises |-> p.raises]

\* where a write of n bytes is cut: before the first byte, after it, half
\* way, and before the last byte
CutPoints(n) == {0, 1, n \div 2, n - 1} \cap 0..(n - 1)

\* the files an append can leave when the process dies after k bytes of the
\* write reached the disk
PartialAppends(file, entry) ==
    LET p == AppendPlan(file, entry)
    IN  {[exists |-> TRUE, bytes |-> WriteAt(p.base, p.at, SubSeq(p.data, 1, k))] :
            k \in CutPoints(Len(p.data))} \ {file}

(***************************************************************************)
(* State.                                                                  *)
(***************************************************************************)
VARIABLES
    carcara,        \* shutil.which("carcara") is not None
    no_move,        \* args.no_move
    spec_beside,    \* [Certs -> BOOLEAN]: <cert minus ".alethe"> is a file
    spec_dest,      \* [Certs -> BOOLEAN]: out_dir/<base>.smt2 is a file
    sliced_root,    \* the directory sliced_proofs exists
    out_dir,        \* the certificates whose out_dir exists
    slice_file,     \* [Jobs -> {"absent", "empty", "data"}]
    stderr_file,    \* [Jobs -> {"absent", "empty", "data"}]
    log_file,       \* [Jobs -> [exists, data]]: the elaboration log
    ledger,         \* [exists, bytes]: the results file
    stdout,         \* the lines printed by the current run
    pc,             \* position of the driver
    ci,             \* index of the certificate in scan order
    holes,          \* holes of the current certificate
    hi,             \* index of the hole in holes
    smt2_for_slice, \* locals of main: "beside", "dest" or "none"
    smt2_src,
    smt2_dest,
    result,         \* the record built at lines 346-360
    run,            \* number of the current run
    kills,          \* how many times the process was killed
    slice_calls,    \* [Jobs -> Nat]: invocations of "carcara slice"
    elab_calls,     \* [Jobs -> Nat]: invocations of "carcara elaborate"
    run_calls,      \* tool invocations of the current run
    run_appends,    \* appends completed by the current run
    completed,      \* the records whose append returned, in order
    interrupted,    \* "no", "pending" (an append was cut short and none
                    \* was made since) or "past"
    slice_failed,   \* the jobs for which run_slice returned False
    snap,           \* what the previous run left behind, when it ran to its end
    arg,            \* the input of a function that is studied on its own
    ret,            \* and what it returned
    unreadable,     \* the certificates that open() refuses to open
    lost            \* how many of the last printed lines were still in the
                    \* buffer of standard output when the process was killed

fsvars == <<spec_beside, spec_dest, sliced_root, out_dir, slice_file, stderr_file,
            log_file, ledger>>
locals == <<ci, holes, hi, smt2_for_slice, smt2_src, smt2_dest, result>>
history == <<slice_calls, elab_calls, run_calls, run_appends, completed,
             interrupted, slice_failed, snap>>
vars == <<carcara, no_move, fsvars, stdout, pc, locals, run, kills, history, arg, ret,
          unreadable, lost>>

NoResult == [alethe |-> 0, hole |-> <<>>, line |-> 0, ok |-> FALSE, success |-> 0,
             failed |-> 0, panicked |-> FALSE, timeout |-> FALSE]

NoLog == [exists |-> FALSE, data |-> <<>>]

\* the state before the driver has done anything
Fresh ==
    /\ spec_dest = [c \in Certs |-> FALSE]
    /\ sliced_root = FALSE
    /\ out_dir = {}
    /\ slice_file = [j \in Jobs |-> "absent"]
    /\ stderr_file = [j \in Jobs |-> "absent"]
    /\ log_file = [j \in Jobs |-> NoLog]
    /\ ledger = NoFile
    /\ stdout = <<>>
    /\ lost = 0
    /\ ci = 0
    /\ holes = <<>>
    /\ hi = 0
    /\ smt2_for_slice = "none"
    /\ smt2_src = "none"
    /\ smt2_dest = "none"
    /\ result = NoResult
    /\ run = 1
    /\ kills = 0
    /\ slice_calls = [j \in Jobs |-> 0]
    /\ elab_calls = [j \in Jobs |-> 0]
    /\ run_calls = 0
    /\ run_appends = 0
    /\ completed = <<>>
    /\ interrupted = "no"
    /\ slice_failed = {}
    /\ snap = [clean |-> FALSE, slice |-> slice_file, log |-> log_file]

Init ==
    /\ carcara \in BOOLEAN
    /\ no_move \in BOOLEAN
    /\ spec_beside \in [Certs -> BOOLEAN]
    /\ unreadable \in SUBSET Certs
    /\ Fresh
    /\ pc = "start"
    /\ arg = <<>>
    /\ ret = <<>>

(***************************************************************************)
(* Status lines on standard output.  status is "absent" for the line of a  *)
(* freshly elaborated job, whose JSON object has no "status" key.          *)
(***************************************************************************)
StatusLine(st, c, h, cached) ==
    [status |-> st, alethe |-> c, hole |-> h, cached |-> cached]

(***************************************************************************)
(* Path helpers.  The sibling  <cert>[:-7]  and the guess                  *)
(* dirpath/<base_name>.smt2  are the same path for a *.smt2.alethe file.   *)
(***************************************************************************)
isfile(path, c) ==
    \/ path = "beside" /\ spec_beside[c]
    \/ path = "dest" /\ spec_dest[c]

find_smt2_beside(c) == IF isfile("beside", c) THEN "beside" ELSE "none"

find_existing_smt2_for_base(c) == IF isfile("dest", c) THEN "dest" ELSE "none"

\* ResolveSpec with the existence test of the last candidate left out
ResolveSpec_unchecked(c) ==
    IF find_existing_smt2_for_base(c) # "none" THEN find_existing_smt2_for_base(c)
    ELSE "beside"

\* lines 245-256: the specification used for slicing, "none" when not found
ResolveSpec(c) ==
    IF find_existing_smt2_for_base(c) # "none" THEN find_existing_smt2_for_base(c)
    ELSE IF find_smt2_beside(c) # "none" /\ isfile(find_smt2_beside(c), c)
         THEN find_smt2_beside(c)
    ELSE IF isfile("beside", c) THEN "beside"
    ELSE "none"

Cur == <<ci, holes[hi][1]>>

\* the cache tests with the existence check left out
slice_cached_never(j) == FALSE

elaborate_cached_never(j) == FALSE

\* line 273 and line 321
slice_cached(j) == slice_file[j] # "absent"

elaborate_cached(j) == log_file[j].exists

(***************************************************************************)
(* main, lines 220-228.                                                    *)
(***************************************************************************)
\* main with the output root created before the tool is looked for
Start_late ==
    /\ pc = "start"
    /\ sliced_root' = TRUE
    /\ IF ~carcara
       THEN /\ pc' = "exit1"
            /\ UNCHANGED ci
       ELSE /\ ci' = 1
            /\ pc' = "cert"
    /\ UNCHANGED <<arg, ret, unreadable, lost, carcara, no_move, spec_beside, spec_dest, out_dir, slice_file,
                   stderr_file, log_file, ledger, stdout, holes, hi, smt2_for_slice,
                   smt2_src, smt2_dest, result, run, kills, history>>

Start ==
    /\ pc = "start"
    /\ IF ~carcara
       THEN /\ pc' = "exit1"
            /\ UNCHANGED <<sliced_root, ci>>
       ELSE /\ sliced_root' = TRUE
            /\ ci' = 1
            /\ pc' = "cert"
    /\ UNCHANGED <<arg, ret, unreadable, lost, carcara, no_move, spec_beside, spec_dest, out_dir, slice_file,
                   stderr_file, log_file, ledger, stdout, holes, hi, smt2_for_slice,
                   smt2_src, smt2_dest, result, run, kills, history>>

(***************************************************************************)
(* One iteration header of the certificate loop, lines 233-266.            *)
(***************************************************************************)
NextCert ==
    /\ pc = "cert"
    /\ IF ci > Len(CertName)
       THEN /\ pc' = "done"
            /\ UNCHANGED <<out_dir, stdout, ci, holes, hi, smt2_for_slice, smt2_src,
                           smt2_dest>>
       ELSE /\ out_dir' = out_dir \cup {ci}
            /\ smt2_src' = find_smt2_beside(ci)
            /\ IF ResolveSpec(ci) = "none"
               THEN /\ stdout' = Append(stdout, StatusLine("not_found", ci, <<>>, FALSE))
                    /\ ci' = ci + 1
                    /\ pc' = "cert"
                    /\ smt2_dest' = find_existing_smt2_for_base(ci)
                    /\ UNCHANGED <<holes, hi, smt2_for_slice>>
               ELSE /\ smt2_for_slice' = ResolveSpec(ci)
                    /\ smt2_dest' = find_existing_smt2_for_base(ci)
                    /\ IF ci \in unreadable
                       THEN \* line 264: open() raises in read_file_lines and
                            \* nothing catches the exception
                            /\ pc' = "crashed_scan"
                            /\ UNCHANGED <<holes, hi>>
                       ELSE /\ holes' = holes_in_alethe(CertLines[ci])
                            /\ hi' = 1
                            /\ pc' = "hole"
                    /\ UNCHANGED <<stdout, ci>>
    /\ UNCHANGED <<arg, ret, unreadable, lost, carcara, no_move, spec_beside, spec_dest, sliced_root, slice_file,
                   stderr_file, log_file, ledger, result, run, kills, history>>

(***************************************************************************)
(* Header of the hole loop and the cache test of lines 268-274; run_slice  *)
(* up to the point where both output files are open (lines 112-126).       *)
(***************************************************************************)
NextHole ==
    /\ pc = "hole"
    /\ IF hi > Len(holes)
       THEN /\ ci' = ci + 1
            /\ pc' = "cert"
            /\ UNCHANGED <<slice_file, stderr_file>>
       ELSE IF slice_cached(Cur)
       THEN /\ pc' = "transfer"
            /\ UNCHANGED <<slice_file, stderr_file, ci>>
       ELSE /\ slice_file' = [slice_file EXCEPT ![Cur] = "empty"]
            /\ stderr_file' = [stderr_file EXCEPT ![Cur] = "empty"]
            /\ pc' = "slicing"
            /\ UNCHANGED ci
    /\ UNCHANGED <<arg, ret, unreadable, lost, carcara, no_move, spec_beside, spec_dest, sliced_root, out_dir,
                   log_file, ledger, stdout, holes, hi, smt2_for_slice, smt2_src,
                   smt2_dest, result, run, kills, history>>

(***************************************************************************)
(* run_slice from the tool invocation on (lines 127-135) and the handling  *)
(* of its result in main (lines 284-292).  The tool is a black box; the    *)
(* outcomes are its exit code and whether it wrote to stdout and stderr.   *)
(***************************************************************************)
SliceOutcomes ==
    { [rc |-> 0, out |-> "data", err |-> "empty"],
      [rc |-> 0, out |-> "empty", err |-> "empty"],
      [rc |-> 1, out |-> "data", err |-> "data"] }

\* the test of line 128 with the size of the artifact left out
SliceOk_rc_only(rc, out) == rc = 0

\* line 128, negated: the condition under which run_slice returns True
SliceOk(rc, out) == ~(out = "empty" \/ rc # 0)

SliceRun ==
    /\ pc = "slicing"
    /\ \E o \in SliceOutcomes :
         /\ slice_calls' = [slice_calls EXCEPT ![Cur] = @ + 1]
         /\ run_calls' = run_calls + 1
         /\ slice_file' = [slice_file EXCEPT ![Cur] = o.out]
         /\ IF ~SliceOk(o.rc, o.out)
            THEN /\ stderr_file' = [stderr_file EXCEPT ![Cur] = o.err]
                 /\ slice_failed' = slice_failed \cup {Cur}
                 /\ stdout' = Append(stdout, StatusLine("slice_error", ci, Cur[2], FALSE))
                 /\ hi' = hi + 1
                 /\ pc' = "hole"
            ELSE /\ stderr_file' = [stderr_file EXCEPT
                                      ![Cur] = IF o.err = "empty" THEN "absent" ELSE o.err]
                 /\ pc' = "transfer"
                 /\ UNCHANGED <<slice_failed, stdout, hi>>
    /\ UNCHANGED <<arg, ret, unreadable, lost, carcara, no_move, spec_beside, spec_dest, sliced_root, out_dir,
                   log_file, ledger, ci, holes, smt2_for_slice, smt2_src, smt2_dest,
                   result, run, kills, elab_calls, run_appends, completed,
                   interrupted, snap>>

(***************************************************************************)
(* Materialising the specification file in out_dir, lines 294-319.         *)
(***************************************************************************)
\* the value of smt2_src after lines 296-298
TransferSource(c) ==
    IF (smt2_src = "none" \/ ~isfile(smt2_src, c)) /\ isfile(smt2_for_slice, c)
    THEN smt2_for_slice
    ELSE smt2_src

\* the transfer done by a move whatever the flag says
SourceAfter_moved(c) ==
    IF TransferSource(c) # "beside"
    THEN spec_beside
    ELSE [spec_beside EXCEPT ![c] = FALSE]

\* lines 301-313: the corpus after copy2 (--no-move) or move; a move removes
\* the source
SourceAfter(c) ==
    IF no_move \/ TransferSource(c) # "beside"
    THEN spec_beside
    ELSE [spec_beside EXCEPT ![c] = FALSE]

Transfer ==
    /\ pc = "transfer"
    /\ IF find_existing_smt2_for_base(ci) # "none"
       THEN /\ smt2_dest' = find_existing_smt2_for_base(ci)
            /\ UNCHANGED <<smt2_src, spec_beside, spec_dest>>
       ELSE /\ smt2_src' = TransferSource(ci)
            /\ IF TransferSource(ci) # "none" /\ isfile(TransferSource(ci), ci)
               THEN /\ spec_dest' = [spec_dest EXCEPT ![ci] = TRUE]
                    /\ spec_beside' = SourceAfter(ci)
                    /\ smt2_dest' = "dest"
               ELSE /\ smt2_dest' = smt2_for_slice
                    /\ UNCHANGED <<spec_beside, spec_dest>>
    /\ pc' = "elab"
    /\ UNCHANGED <<arg, ret, unreadable, lost, carcara, no_move, sliced_root, out_dir, slice_file, stderr_file,
                   log_file, ledger, stdout, ci, holes, hi, smt2_for_slice, result,
                   run, kills, history>>

(***************************************************************************)
(* The cache test of lines 321-332 and run_elaborate up to the point where *)
(* the log is open (lines 143-163).                                        *)
(***************************************************************************)
ElabCheck ==
    /\ pc = "elab"
    /\ IF elaborate_cached(Cur)
       THEN /\ stdout' = Append(stdout, StatusLine("ok", ci, Cur[2], TRUE))
            /\ hi' = hi + 1
            /\ pc' = "hole"
            /\ UNCHANGED log_file
       ELSE /\ log_file' = [log_file EXCEPT ![Cur] = [exists |-> TRUE, data |-> <<>>]]
            /\ pc' = "elaborating"
            /\ UNCHANGED <<stdout, hi>>
    /\ UNCHANGED <<arg, ret, unreadable, lost, carcara, no_move, spec_beside, spec_dest, sliced_root, out_dir,
                   slice_file, stderr_file, ledger, ci, holes, smt2_for_slice, smt2_src,
                   smt2_dest, result, run, kills, history>>

(***************************************************************************)
(* run_elaborate from the tool invocation on (lines 165-200), the record   *)
(* of lines 346-360 and the print of line 362.  A log is a sequence of     *)
(* marker occurrences: "S" = "Elaboration successed", "F" = "Check         *)
(* failed:", "P" = "panicked at", "T" = the [timeout] line of line 176,     *)
(* "x" = any other text.  The driver reads back the log it has just        *)
(* written; a read that raises is studied with run_elaborate on its own.   *)
(***************************************************************************)
\* what the tool can do: the text it writes and whether it exceeds the timeout
ElabOutcomes ==
    { [text |-> <<"S">>, timed_out |-> FALSE],
      [text |-> <<"S", "F">>, timed_out |-> FALSE],
      [text |-> <<"P">>, timed_out |-> FALSE],
      [text |-> <<>>, timed_out |-> TRUE] }

\* the text a tool that is cut short has written
PartialLogs == {<<>>, <<"S">>}

\* line 176: the line written to the log of a tool that exceeded the timeout
TimeoutLine == <<"T">>

\* a timeout line that quotes the failure marker
LogAfter_marked(text, timed_out) ==
    IF timed_out THEN text \o <<"F">> ELSE text

\* lines 163-178: the log once the tool has ended or has been terminated
LogAfter(text, timed_out) ==
    IF timed_out THEN text \o TimeoutLine ELSE text

\* the parse of the log with the timeout left out of ok
Classify_untimed(data, timed_out, readable) ==
    LET success == IF readable THEN Count(data, "S") ELSE 0
        failed == IF readable THEN Count(data, "F") ELSE 0
        panicked == readable /\ Contains(data, "P")
    IN  [ok |-> readable /\ ~(panicked \/ failed > 0), success |-> success,
         failed |-> failed, panicked |-> panicked, timeout |-> timed_out]

\* lines 182-200; readable is false when reading the log back raises, in
\* which case the counts keep their initial values and ok is False
Classify(data, timed_out, readable) ==
    LET success == IF readable THEN Count(data, "S") ELSE 0
        failed == IF readable THEN Count(data, "F") ELSE 0
        panicked == readable /\ Contains(data, "P")
    IN  [ok |-> readable /\ ~(timed_out \/ panicked \/ failed > 0),
         success |-> success, failed |-> failed, panicked |-> panicked,
         timeout |-> timed_out]

ElabRun ==
    /\ pc = "elaborating"
    /\ \E o \in ElabOutcomes :
         LET data == LogAfter(o.text, o.timed_out)
             cls == Classify(data, o.timed_out, TRUE)
         IN  /\ log_file' = [log_file EXCEPT ![Cur] = [exists |-> TRUE, data |-> data]]
             /\ result' = [alethe |-> ci, hole |-> Cur[2], line |-> holes[hi][2],
                           ok |-> cls.ok, success |-> cls.success,
                           failed |-> cls.failed, panicked |-> cls.panicked,
                           timeout |-> cls.timeout]
    /\ elab_calls' = [elab_calls EXCEPT ![Cur] = @ + 1]
    /\ run_calls' = run_calls + 1
    /\ stdout' = Append(stdout, StatusLine("absent", ci, Cur[2], FALSE))
    /\ pc' = "append"
    /\ UNCHANGED <<arg, ret, unreadable, lost, carcara, no_move, spec_beside, spec_dest, sliced_root, out_dir,
                   slice_file, stderr_file, ledger, ci, holes, hi, smt2_for_slice,
                   smt2_src, smt2_dest, run, kills, slice_calls, run_appends,
                   completed, interrupted, slice_failed, snap>>

(***************************************************************************)
(* Line 363: the append to the ledger.  An exception raised by             *)
(* append_json_array is caught nowhere and ends the run.                   *)
(***************************************************************************)
AppendRecord ==
    /\ pc = "append"
    /\ LET r == append_json_array(ledger, result)
       IN  /\ ledger' = r.file
           /\ IF r.raises
              THEN /\ pc' = "crashed"
                   /\ UNCHANGED <<completed, run_appends, hi>>
              ELSE /\ completed' = Append(completed, result)
                   /\ run_appends' = run_appends + 1
                   /\ hi' = hi + 1
                   /\ pc' = "hole"
    /\ interrupted' = IF interrupted = "pending" THEN "past" ELSE interrupted
    /\ UNCHANGED <<arg, ret, unreadable, lost, carcara, no_move, spec_beside, spec_dest, sliced_root, out_dir,
                   slice_file, stderr_file, log_file, stdout, ci, holes,
                   smt2_for_slice, smt2_src, smt2_dest, result, run, kills,
                   slice_calls, elab_calls, run_calls, slice_failed, snap>>

(***************************************************************************)
(* The process is killed: between two steps, while a tool runs (its output *)
(* file holds whatever was written so far), or while the bytes of an append*)
(* are being written.  print is never flushed (lines 257-362), so when     *)
(* standard output is not a terminal the lines printed last may still be   *)
(* in its buffer, and they are lost with the process.                      *)
(***************************************************************************)
Running == {"start", "cert", "hole", "slicing", "transfer", "elab", "elaborating",
            "append"}

Kill ==
    /\ pc \in Running
    /\ kills < MaxKills
    /\ kills' = kills + 1
    /\ lost' \in 0..Len(stdout)
    /\ pc' = "dead"
    /\ UNCHANGED <<arg, ret, unreadable, carcara, no_move, fsvars, stdout, locals, run, history>>

KillSlice ==
    /\ pc = "slicing"
    /\ kills < MaxKills
    /\ kills' = kills + 1
    /\ lost' \in 0..Len(stdout)
    /\ pc' = "dead"
    /\ slice_calls' = [slice_calls EXCEPT ![Cur] = @ + 1]
    /\ run_calls' = run_calls + 1
    /\ \E out \in {"empty", "data"}, err \in {"empty", "data"} :
         /\ slice_file' = [slice_file EXCEPT ![Cur] = out]
         /\ stderr_file' = [stderr_file EXCEPT ![Cur] = err]
    /\ UNCHANGED <<arg, ret, unreadable, carcara, no_move, spec_beside, spec_dest, sliced_root, out_dir,
                   log_file, ledger, stdout, locals, run, elab_calls, run_appends,
                   completed, interrupted, slice_failed, snap>>

KillElab ==
    /\ pc = "elaborating"
    /\ kills < MaxKills
    /\ kills' = kills + 1
    /\ lost' \in 0..Len(stdout)
    /\ pc' = "dead"
    /\ elab_calls' = [elab_calls EXCEPT ![Cur] = @ + 1]
    /\ run_calls' = run_calls + 1
    /\ \E text \in PartialLogs :
         log_file' = [log_file EXCEPT ![Cur] = [exists |-> TRUE, data |-> text]]
    /\ UNCHANGED <<arg, ret, unreadable, carcara, no_move, spec_beside, spec_dest, sliced_root, out_dir,
                   slice_file, stderr_file, ledger, stdout, locals, run, slice_calls,
                   run_appends, completed, interrupted, slice_failed, snap>>

KillAppend ==
    /\ pc = "append"
    /\ kills < MaxKills
    /\ kills' = kills + 1
    /\ lost' \in 0..Len(stdout)
    /\ pc' = "dead"
    /\ ledger' \in PartialAppends(ledger, result)
    /\ interrupted' = "pending"
    /\ UNCHANGED <<arg, ret, unreadable, carcara, no_move, spec_beside, spec_dest, sliced_root, out_dir,
                   slice_file, stderr_file, log_file, stdout, locals, run,
                   slice_calls, elab_calls, run_calls, run_appends, completed,
                   slice_failed, snap>>

(***************************************************************************)
(* The driver is started again over the same corpus and output tree.       *)
(***************************************************************************)
Restart ==
    /\ pc \in {"done", "dead", "crashed", "crashed_scan"}
    /\ run < MaxRuns
    /\ run' = run + 1
    /\ pc' = "start"
    /\ stdout' = <<>>
    /\ lost' = 0
    /\ ci' = 0
    /\ holes' = <<>>
    /\ hi' = 0
    /\ smt2_for_slice' = "none"
    /\ smt2_src' = "none"
    /\ smt2_dest' = "none"
    /\ result' = NoResult
    /\ run_calls' = 0
    /\ run_appends' = 0
    /\ snap' = IF pc = "done" /\ kills = 0
               THEN [clean |-> TRUE, slice |-> slice_file, log |-> log_file]
               ELSE [clean |-> FALSE, slice |-> [j \in Jobs |-> "absent"],
                     log |-> [j \in Jobs |-> NoLog]]
    /\ UNCHANGED <<arg, ret, unreadable, carcara, no_move, fsvars, kills, slice_calls, elab_calls,
                   completed, interrupted, slice_failed>>

Next ==
    \/ Start
    \/ NextCert
    \/ NextHole
    \/ SliceRun
    \/ Transfer
    \/ ElabCheck
    \/ ElabRun
    \/ AppendRecord
    \/ Kill
    \/ KillSlice
    \/ KillElab
    \/ KillAppend
    \/ Restart

Spec == Init /\ [][Next]_vars

TypeOK ==
    /\ pc \in Running \cup {"done", "dead", "crashed", "crashed_scan", "exit1"}
    /\ run \in 1..MaxRuns
    /\ kills \in 0..MaxKills

(***************************************************************************)
(* Properties.                                                             *)
(***************************************************************************)
Payloads(es) == [i \in 1..Len(es) |-> EntryStr(es[i])]

IsPrefix(s, t) == Len(s) <= Len(t) /\ \A i \in 1..Len(s) : s[i] = t[i]

LinesOf(st, c) == {i \in 1..Len(stdout) : stdout[i].status = st /\ stdout[i].alethe = c}

\* C1: as long as no append was cut short, the ledger file exists exactly
\* when a record was appended, and it then parses as the JSON array of the
\* appended records, in append order.
C1_AppendsYieldArray ==
    interrupted = "no" =>
        /\ ledger.exists <=> completed # <<>>
        /\ ledger.exists =>
             /\ ParseArray(ledger.bytes).ok
             /\ ParseArray(ledger.bytes).items = Payloads(completed)

\* C2: whenever the driver is not inside an append, the ledger file, if it
\* exists, parses as a JSON array.  (Stated here in its weakest reading: the
\* states that follow an append that was cut short are left out as well.)
C2_LedgerValidAtRest ==
    (ledger.exists /\ interrupted = "no") => ParseArray(ledger.bytes).ok

\* C3: the append that follows an append cut short after part of its bytes
\* leaves a file that parses as a JSON array, starts with the records whose
\* append had completed, in order, and ends with the new record.
C3_ResumeAfterInterruption ==
    [][(pc = "append" /\ interrupted = "pending" /\ pc' # "dead") =>
          LET after == ParseArray(ledger'.bytes)
          IN  /\ after.ok
              /\ IsPrefix(Payloads(completed), after.items)
              /\ Len(after.items) >= 1
              /\ after.items[Len(after.items)] = EntryStr(result)]_vars

\* C4: an append never removes or changes a record: the records readable in
\* the file before the append are a prefix of the records readable after it.
C4_LedgerMonotonic ==
    [][(pc = "append" /\ pc' # "dead") =>
          IsPrefix(ParseArray(ledger.bytes).items, ParseArray(ledger'.bytes).items)]_vars

\* C5: a run that follows a run which went through the whole corpus invokes
\* no external tool, appends nothing to the ledger and leaves every slice
\* artifact and elaboration log as it was.
C5_SecondRunIdempotent ==
    (run >= 2 /\ snap.clean) =>
        /\ run_calls = 0
        /\ run_appends = 0
        /\ slice_file = snap.slice
        /\ log_file = snap.log

\* C6: over all runs, killed and restarted ones included, the slice tool and
\* the elaborate tool are each invoked at most once per (certificate, hole).
C6_AtMostOnce ==
    \A j \in Jobs : slice_calls[j] <= 1 /\ elab_calls[j] <= 1

\* a job was sliced and elaborated in a run that was killed, and a later run
\* went through the whole corpus
C6_Witness ==
    /\ run >= 2
    /\ kills >= 1
    /\ pc = "done"
    /\ \E j \in Jobs : slice_calls[j] = 1 /\ elab_calls[j] = 1

\* C7: while the driver processes a job whose elaboration log exists, no
\* tool is invoked, the log and the ledger stay as they are, and the only
\* line printed is one line with status ok and cached true.
C7_CachedElaboration ==
    [][(/\ pc \in {"hole", "transfer", "elab"}
        /\ hi \in 1..Len(holes)
        /\ log_file[Cur].exists
        /\ pc' # "dead") =>
          /\ slice_calls' = slice_calls
          /\ elab_calls' = elab_calls
          /\ log_file' = log_file
          /\ ledger' = ledger
          /\ pc = "hole" => (pc' = "transfer" /\ stdout' = stdout)
          /\ pc = "transfer" => (pc' = "elab" /\ stdout' = stdout)
          /\ pc = "elab" =>
               /\ pc' = "hole"
               /\ stdout' = Append(stdout, StatusLine("ok", ci, Cur[2], TRUE))]_vars

\* the line just printed reports a cached job whose log holds a failed check
C7_Witness ==
    /\ Len(stdout) >= 1
    /\ stdout[Len(stdout)].cached
    /\ stdout[Len(stdout)].status = "ok"
    /\ Contains(log_file[<<stdout[Len(stdout)].alethe, stdout[Len(stdout)].hole>>].data, "F")

\* C8: a hole whose slicing failed is never elaborated and never recorded,
\* neither in the same run nor in a later one.
C8_SliceErrorAbsorbing ==
    \A j \in slice_failed :
        /\ elab_calls[j] = 0
        /\ \A i \in 1..Len(completed) : <<completed[i].alethe, completed[i].hole>> # j

\* C9: a certificate without a specification file gets exactly one not_found
\* line in a run that reaches it, no tool invocation, no ledger record and no
\* file under its output directory, and the driver goes on with the next
\* certificate.
NotFound(c) == ~spec_beside[c] /\ ~spec_dest[c]

Reached(c) == pc \notin {"start", "exit1"} /\ ci > c

C9_NotFoundQuiet ==
    \A c \in Certs : NotFound(c) =>
        /\ Cardinality(LinesOf("not_found", c)) = IF Reached(c) THEN 1 ELSE 0
        /\ \A i \in 1..Len(stdout) :
             stdout[i].alethe = c => stdout[i].status = "not_found"
        /\ \A i \in 1..Len(completed) : completed[i].alethe # c
        /\ \A j \in Jobs : j[1] = c =>
             /\ slice_calls[j] = 0
             /\ elab_calls[j] = 0
             /\ slice_file[j] = "absent"
             /\ stderr_file[j] = "absent"
             /\ ~log_file[j].exists

C9_NotFoundSkipped ==
    /\ []C9_NotFoundQuiet
    /\ [][(pc = "cert" /\ ci \in Certs /\ NotFound(ci) /\ pc' # "dead") =>
             (pc' = "cert" /\ ci' = ci + 1)]_vars

\* the first certificate was not found and the run went on to elaborate a
\* hole of the second one
C9_Witness ==
    /\ NotFound(1)
    /\ pc = "done"
    /\ LinesOf("not_found", 1) # {}
    /\ LinesOf("absent", 2) # {}

\* C10: a run that ends otherwise than by being killed has gone through
\* every certificate of the corpus, whatever its jobs ended in.
C10_FailuresIsolated ==
    pc \in {"done", "crashed"} => ci > Len(CertName)

(***************************************************************************)
(* The status stream of one run.                                           *)
(***************************************************************************)
\* the status lines of one job, whatever their status
JobLines(c, h) ==
    {i \in 1..Len(stdout) : stdout[i].alethe = c /\ stdout[i].hole = h
                            /\ stdout[i].status # "not_found"}

\* the deduplicated holes of a certificate
HolesOf(c) == {holes_in_alethe(CertLines[c])[k][1] :
                 k \in 1..Len(holes_in_alethe(CertLines[c]))}

\* a run that ended by itself: by the end of main or by the exception of a
\* ledger append
Ended == pc \in {"done", "crashed"}

\* C11: when a run has ended by itself, every certificate has either exactly
\* one not_found line and no other line, or exactly one status line for each
\* of its deduplicated holes and no not_found line.
C11_OneLinePerJob ==
    Ended =>
      \A c \in Certs :
        IF LinesOf("not_found", c) # {}
        THEN /\ Cardinality(LinesOf("not_found", c)) = 1
             /\ \A h \in HolesOf(c) : JobLines(c, h) = {}
        ELSE \A h \in HolesOf(c) : Cardinality(JobLines(c, h)) = 1

\* the values the status field of a status line may take
StatusValues == {"ok", "not_found", "slice_error", "error"}

\* C12: every status line on standard output carries a status field whose
\* value is one of ok, not_found, slice_error, error.
C12_StatusField ==
    \A i \in 1..Len(stdout) : stdout[i].status \in StatusValues

(***************************************************************************)
(* Functions studied on their own.  The driver's variables stay as they    *)
(* are before a run; arg holds the input and ret what was returned.        *)
(***************************************************************************)
SeqsUpTo(S, n) == UNION {[1..k -> S] : k \in 0..n}

Idle ==
    /\ carcara = TRUE
    /\ no_move = FALSE
    /\ spec_beside = [c \in Certs |-> TRUE]
    /\ unreadable = {}
    /\ Fresh

(***************************************************************************)
(* run_elaborate, lines 161-200, as a function of what the tool wrote,     *)
(* whether it exceeded the timeout, and whether the log can be read back.  *)
(***************************************************************************)
MaxLogLen == 4

LogTexts == SeqsUpTo({"S", "F", "P", "x"}, MaxLogLen)

run_elaborate(text, timed_out, readable) ==
    LET data == LogAfter(text, timed_out)
        cls == Classify(data, timed_out, readable)
    IN  [log |-> data, ok |-> cls.ok, success |-> cls.success,
         failed |-> cls.failed, panicked |-> cls.panicked, timeout |-> cls.timeout]

InitElab ==
    /\ Idle
    /\ pc = "call"
    /\ arg \in [text : LogTexts, timed_out : BOOLEAN, readable : BOOLEAN]
    /\ ret = <<>>

CallElaborate ==
    /\ pc = "call"
    /\ ret' = run_elaborate(arg.text, arg.timed_out, arg.readable)
    /\ pc' = "return"
    /\ UNCHANGED <<arg, unreadable, lost, carcara, no_move, fsvars, stdout, locals, run, kills, history>>

NextElab == CallElaborate

SpecElab == InitElab /\ [][NextElab]_vars

\* C13, as stated: for every result of run_elaborate, ok is true exactly when
\* the run did not time out, did not panic and no check failed.
C13_OkIff ==
    pc = "return" =>
      (ret.ok <=> (~ret.timeout /\ ~ret.panicked /\ ret.failed = 0))

\* C13, amended: ok is true exactly when the log could be read back, the run
\* did not time out, did not panic and no check failed.
C13_OkIffReadable ==
    pc = "return" =>
      (ret.ok <=> (arg.readable /\ ~ret.timeout /\ ~ret.panicked /\ ret.failed = 0))

\* a result that is not ok although nothing timed out, panicked or failed
C13_Witness ==
    /\ pc = "return"
    /\ ~arg.readable
    /\ ~ret.ok /\ ~ret.timeout /\ ~ret.panicked /\ ret.failed = 0

\* what C14 says of the flags of a run and of its log
C14_Flags ==
    /\ ret.timeout = arg.timed_out
    /\ arg.timed_out => ~ret.ok
    /\ ret.log = IF arg.timed_out THEN arg.text \o TimeoutLine ELSE arg.text

\* C14, as stated: the counts are the numbers of success and failure markers
\* in what the tool wrote, panicked says whether the crash marker occurs in
\* it, a timed-out run has timed_out true and ok false, and the timeout line
\* added to the log changes none of the counts.
C14_Classification ==
    pc = "return" =>
      /\ ret.success = Count(arg.text, "S")
      /\ ret.failed = Count(arg.text, "F")
      /\ ret.panicked <=> Contains(arg.text, "P")
      /\ C14_Flags

\* C14, amended: the same when the log could be read back; when it could
\* not, both counts are 0 and panicked is false whatever the log holds.
C14_ClassificationReadable ==
    pc = "return" =>
      /\ ret.success = IF arg.readable THEN Count(arg.text, "S") ELSE 0
      /\ ret.failed = IF arg.readable THEN Count(arg.text, "F") ELSE 0
      /\ ret.panicked <=> (arg.readable /\ Contains(arg.text, "P"))
      /\ C14_Flags

\* a timed-out run whose log holds three success markers and one failure
C14_Witness ==
    /\ pc = "return"
    /\ arg.readable /\ arg.timed_out
    /\ ret.success = 3 /\ ret.failed = 1 /\ ~ret.panicked /\ ~ret.ok
    /\ Contains(ret.log, "T")

(***************************************************************************)
(* holes_in_alethe, lines 29-45, over any short certificate.  A line is    *)
(* what the scan sees of it: whether it holds the marker, and the name the *)
(* step pattern finds in it (<<>> when it finds none).                     *)
(***************************************************************************)
MaxLines == 4

LineKinds ==
    { Line(FALSE, <<"h">>), Line(TRUE, <<>>), Line(TRUE, <<"h">>),
      Line(TRUE, <<"h", ".", "s">>), Line(TRUE, <<"g">>) }

InitHoles ==
    /\ Idle
    /\ pc = "call"
    /\ arg \in SeqsUpTo(LineKinds, MaxLines)
    /\ ret = <<>>

CallHoles ==
    /\ pc = "call"
    /\ ret' = holes_in_alethe(arg)
    /\ pc' = "return"
    /\ UNCHANGED <<arg, unreadable, lost, carcara, no_move, fsvars, stdout, locals, run, kills, history>>

NextHoles == CallHoles

SpecHoles == InitHoles /\ [][NextHoles]_vars

\* the marker lines whose step name has no "."
Eligible == {i \in 1..Len(arg) : arg[i].marker /\ arg[i].name # <<>>
                                 /\ ~Contains(arg[i].name, ".")}

\* the first of them that carries the name n
FirstLine(n) == CHOOSE i \in Eligible :
                  /\ arg[i].name = n
                  /\ \A k \in Eligible : arg[k].name = n => i <= k

\* C15: holes_in_alethe returns the names without "." of the marker lines,
\* each exactly once, paired with the number of the first line that carries
\* it, in the order of these first lines.
C15_HolesFirstOccurrence ==
    pc = "return" =>
      /\ {ret[k][1] : k \in 1..Len(ret)} = {arg[i].name : i \in Eligible}
      /\ \A k \in 1..Len(ret) : ret[k][2] = FirstLine(ret[k][1])
      /\ \A k, l \in 1..Len(ret) : k < l => /\ ret[k][1] # ret[l][1]
                                             /\ ret[k][2] < ret[l][2]

\* the occurrences h, h.s, h, g yield h with its first line, then g
C15_Witness ==
    /\ pc = "return"
    /\ arg = << Line(TRUE, <<"h">>), Line(TRUE, <<"h", ".", "s">>),
                Line(TRUE, <<"h">>), Line(TRUE, <<"g">>) >>
    /\ ret = << << <<"h">>, 1 >>, << <<"g">>, 4 >> >>

\* nothing has been read, created or printed
Untouched ==
    /\ ci = 0 /\ holes = <<>>
    /\ ~sliced_root /\ out_dir = {}
    /\ \A j \in Jobs : /\ slice_file[j] = "absent"
                       /\ stderr_file[j] = "absent"
                       /\ ~log_file[j].exists
    /\ ~ledger.exists
    /\ \A c \in Certs : ~spec_dest[c]
    /\ stdout = <<>>

\* C16: when the tool is not on the path, a run that is not killed leaves
\* main by the non-zero exit as its first step, and at no time has any
\* certificate been read, any directory or file been created under the
\* output root, or any status line been printed.
C16_ToolMissingAborts ==
    /\ [](~carcara => Untouched /\ pc \in {"start", "exit1", "dead"})
    /\ [][~carcara /\ pc = "start" /\ pc' # "dead" => pc' = "exit1"]_vars

\* a run that has ended by the non-zero exit
C16_Witness == ~carcara /\ pc = "exit1"

\* C17, as stated: no step of any run, whatever the flags, removes a
\* specification file from the corpus (certificates are written by no step).
C17_InputsReadOnly == [][spec_beside' = spec_beside]_vars

\* C17, amended: with --no-move no step removes a specification file from
\* the corpus; without it the only step that does is the transfer, which
\* leaves the file in the output directory of its certificate.
C17_ReadOnlyWithNoMove ==
    /\ [][no_move => spec_beside' = spec_beside]_vars
    /\ [][spec_beside' # spec_beside =>
            /\ pc = "transfer"
            /\ spec_beside' = [spec_beside EXCEPT ![ci] = FALSE]
            /\ spec_dest'[ci]]_vars

\* a specification file copied with --no-move: it is in the output directory
\* and still in the corpus
C17_Witness ==
    /\ no_move
    /\ \E c \in Certs : spec_dest[c] /\ spec_beside[c]

(***************************************************************************)
(* human_elapsed, lines 15-22.  A nanosecond count is held as seconds and  *)
(* nanoseconds below 10^9, so that counts beyond 2^31 can be written.  The *)
(* returned text is held as its parts: the digits before the point, the    *)
(* number of decimals (0 or 2), the decimals, and the unit.                *)
(***************************************************************************)
Mega == 1000000

Giga == 1000000000

Minute == 60

Ns(s, n) == [s |-> s, n |-> n]

Text(whole, decimals, frac, unit) ==
    [whole |-> whole, decimals |-> decimals, frac |-> frac, unit |-> unit]

\* The formats .0f and .2f applied to the float quotient: q is the quotient
\* cut at the last printed digit, r / d what was cut off.  Off a tie the
\* nearer value is printed.  A tie the float holds exactly goes to the even
\* digit; any other tie goes where the binary expansion of the quotient
\* puts it, which is either side.
Rounded(q, r, d, exact) ==
    IF 2 * r < d THEN {q}
    ELSE IF 2 * r > d THEN {q + 1}
    ELSE IF exact THEN {IF q % 2 = 0 THEN q ELSE q + 1}
    ELSE {q, q + 1}

\* a tie at the second decimal is held exactly when it is a multiple of 1/8
ExactTie(q) == q % 25 = 12

Hundredths(h, unit) == Text(h \div 100, 2, h % 100, unit)

\* human_elapsed with the comparisons of lines 16, 18 and 20 made inclusive
human_elapsed_inclusive(ns) ==
    IF ns.s = 0 /\ ns.n <= Mega
    THEN {Text(ns.n, 0, 0, "ns")}
    ELSE IF ns.s = 0 \/ ns = Ns(1, 0)
    THEN {Text(v, 0, 0, "ms") :
            v \in Rounded(ns.s * 1000 + ns.n \div Mega, ns.n % Mega, Mega, TRUE)}
    ELSE IF ns.s < Minute \/ ns = Ns(Minute, 0)
    THEN LET q == ns.s * 100 + ns.n \div (Giga \div 100)
         IN  {Hundredths(h, "s") :
                h \in Rounded(q, ns.n % (Giga \div 100), Giga \div 100, ExactTie(q))}
    ELSE LET tenths == ns.s * 10 + ns.n \div (Giga \div 10)
             q == tenths \div 6
             r == ((tenths % 6) * (Giga \div 10)) + (ns.n % (Giga \div 10))
         IN  {Hundredths(h, "m") :
                h \in Rounded(q, r, 6 * (Giga \div 10), ExactTie(q))}

\* the texts human_elapsed may return: one, or two at a tie that the float
\* does not hold exactly
human_elapsed(ns) ==
    IF ns.s = 0 /\ ns.n < Mega
    THEN {Text(ns.n, 0, 0, "ns")}
    ELSE IF ns.s = 0
    THEN {Text(v, 0, 0, "ms") : v \in Rounded(ns.n \div Mega, ns.n % Mega, Mega, TRUE)}
    ELSE IF ns.s < Minute
    THEN LET q == ns.s * 100 + ns.n \div (Giga \div 100)
         IN  {Hundredths(h, "s") :
                h \in Rounded(q, ns.n % (Giga \div 100), Giga \div 100, ExactTie(q))}
    ELSE LET tenths == ns.s * 10 + ns.n \div (Giga \div 10)
             q == tenths \div 6
             r == ((tenths % 6) * (Giga \div 10)) + (ns.n % (Giga \div 10))
         IN  {Hundredths(h, "m") :
                h \in Rounded(q, r, 6 * (Giga \div 10), ExactTie(q))}

\* chart.py line 49: the pattern  digits, optionally a point and digits,
\* then one of the units
elapsed_re_matches(t) ==
    /\ t.whole \in Nat
    /\ t.decimals \in {0, 2}
    /\ t.frac \in 0..99 /\ (t.decimals = 0 => t.frac = 0)
    /\ t.unit \in {"ns", "ms", "s", "m"}

\* how far around each threshold the counts are taken
Spread == 5

Around(s, n) ==
    {Ns(s, n + k) : k \in 0..Spread} \cup {Ns(s - 1, Giga - k) : k \in 1..Spread}

ElapsedInputs ==
    {Ns(0, n) : n \in 0..Spread}
      \cup {Ns(0, Mega + k) : k \in (0 - Spread)..Spread}
      \cup {Ns(0, k * (Mega \div 4)) : k \in 1..(8 * Spread)}
      \cup Around(1, 0) \cup Around(Minute, 0)
      \cup {Ns(s, n) : s \in {1, 2, Minute - 1, Minute, Minute + 1, 90},
                       n \in {0, 4999999, 5000000, 5000001, 15000000, 125000000,
                              375000000, 500000000, 995000000, 999999999}}

InitElapsed ==
    /\ Idle
    /\ pc = "call"
    /\ arg \in ElapsedInputs
    /\ ret = <<>>

CallElapsed ==
    /\ pc = "call"
    /\ ret' \in human_elapsed(arg)
    /\ pc' = "return"
    /\ UNCHANGED <<arg, unreadable, lost, carcara, no_move, fsvars, stdout, locals, run, kills, history>>

NextElapsed == CallElapsed

SpecElapsed == InitElapsed /\ [][NextElapsed]_vars

\* a count is below another
Below(a, b) == a.s < b.s \/ (a.s = b.s /\ a.n < b.n)

\* C18: human_elapsed returns a number followed by one of the units ns, ms,
\* s, m; the unit is ns below 1,000,000 ns, ms below 1,000,000,000 ns, s
\* below 60,000,000,000 ns and m from there on; 500,000 ns gives 500000ns,
\* 1,000,000 ns gives 1ms and 60,000,000,000 ns gives 1.00m.
C18_HumanElapsed ==
    pc = "return" =>
      /\ elapsed_re_matches(ret)
      /\ ret.unit = IF Below(arg, Ns(0, 1000000)) THEN "ns"
                    ELSE IF Below(arg, Ns(1, 0)) THEN "ms"
                    ELSE IF Below(arg, Ns(60, 0)) THEN "s"
                    ELSE "m"
      /\ arg = Ns(0, 500000) => ret = Text(500000, 0, 0, "ns")
      /\ arg = Ns(0, 1000000) => ret = Text(1, 0, 0, "ms")
      /\ arg = Ns(60, 0) => ret = Text(1, 2, 0, "m")

\* one minute exactly, returned as 1.00m
C18_Witness ==
    /\ pc = "return"
    /\ arg = Ns(60, 0)
    /\ ret = Text(1, 2, 0, "m")

\* C19: an append that finds an existing, non-empty ledger file without any
\* closing bracket returns normally and leaves a file that parses as the
\* JSON array of the records that could be parsed before (none, when the
\* content did not parse) followed by the new record.
C19_FallbackRewrites ==
    [][(/\ pc = "append"
        /\ ledger.exists /\ Len(ledger.bytes) > 0
        /\ ~Contains(Decode(ledger.bytes), "]")
        /\ pc' # "dead") =>
          LET before == ParseArray(ledger.bytes)
              after == ParseArray(ledger'.bytes)
          IN  /\ pc' = "hole"
              /\ after.ok
              /\ after.items = (IF before.ok THEN before.items ELSE <<>>)
                                 \o <<EntryStr(result)>>]_vars

(***************************************************************************)
(* append_json_array, lines 56-94, applied to a file that holds a JSON     *)
(* array of objects in any layout: with or without line breaks between the *)
(* items, with or without a final line break.                              *)
(***************************************************************************)
MaxRecs == 2

Rec(c, h) == [alethe |-> c, hole |-> h, line |-> 2, ok |-> TRUE, success |-> 1,
              failed |-> 0, panicked |-> FALSE, timeout |-> FALSE]

SampleEntries == {Rec(1, <<"h">>), Rec(2, <<"h">>), Rec(2, <<"g">>)}

RECURSIVE Joined(_, _, _)
Joined(es, i, sep) ==
    IF i > Len(es) THEN <<>>
    ELSE IF i = Len(es) THEN dumps(es[i])
    ELSE dumps(es[i]) \o sep \o Joined(es, i + 1, sep)

ArrayText(es, nl, tail) ==
    (IF nl THEN <<"[", "n">> ELSE <<"[">>)
      \o Joined(es, 1, IF nl THEN <<",", "n">> ELSE <<",">>)
      \o (IF nl THEN <<"n", "]">> ELSE <<"]">>)
      \o (IF tail THEN <<"n">> ELSE <<>>)

InitAppend ==
    /\ Idle
    /\ pc = "call"
    /\ \E es \in SeqsUpTo(SampleEntries, MaxRecs), nl \in BOOLEAN, tail \in BOOLEAN,
          e \in SampleEntries :
         arg = [records |-> es, entry |-> e,
                file |-> [exists |-> TRUE, bytes |-> ArrayText(es, nl, tail)]]
    /\ ret = <<>>

CallAppend ==
    /\ pc = "call"
    /\ ret' = append_json_array(arg.file, arg.entry)
    /\ pc' = "return"
    /\ UNCHANGED <<arg, unreadable, lost, carcara, no_move, fsvars, stdout, locals, run, kills, history>>

NextAppend == CallAppend

SpecAppend == InitAppend /\ [][NextAppend]_vars

\* every file the append is applied to parses as the array of its records
ValidBefore ==
    /\ ParseArray(arg.file.bytes).ok
    /\ ParseArray(arg.file.bytes).items = Payloads(arg.records)

\* C20: an append to a file that holds a valid JSON array of k >= 0 objects
\* returns normally and leaves a file that parses as the array of these k
\* objects followed by the new record.
C20_AppendToValidArray ==
    /\ ValidBefore
    /\ pc = "return" =>
         /\ ~ret.raises
         /\ ParseArray(ret.file.bytes).ok
         /\ ParseArray(ret.file.bytes).items
              = Payloads(arg.records) \o <<EntryStr(arg.entry)>>

(***************************************************************************)
(* run_slice, lines 110-135, as a function of what the tool did: its exit  *)
(* code and the number of bytes it wrote to stdout (the artifact) and to   *)
(* stderr, and of the debug flag.  Returned: the pair (ok, stderr_path)    *)
(* and the two files as they are left, "absent" when deleted.              *)
(***************************************************************************)
MaxSize == 2

ExitCodes == {0, 1, 2, 101}

Kind(size) == IF size = 0 THEN "empty" ELSE "data"

run_slice(rc, out, err, debug) ==
    IF ~SliceOk(rc, Kind(out))
    THEN [ok |-> FALSE, stderr_path |-> "stderr", slice |-> Kind(out),
          stderr |-> Kind(err)]
    ELSE [ok |-> TRUE, stderr_path |-> "None", slice |-> Kind(out),
          stderr |-> IF err = 0 /\ ~debug THEN "absent" ELSE Kind(err)]

InitSlice ==
    /\ Idle
    /\ pc = "call"
    /\ arg \in [rc : ExitCodes, out : 0..MaxSize, err : 0..MaxSize, debug : BOOLEAN]
    /\ ret = <<>>

CallSlice ==
    /\ pc = "call"
    /\ ret' = run_slice(arg.rc, arg.out, arg.err, arg.debug)
    /\ pc' = "return"
    /\ UNCHANGED <<arg, unreadable, lost, carcara, no_move, fsvars, stdout, locals, run, kills, history>>

NextSlice == CallSlice

SpecSlice == InitSlice /\ [][NextSlice]_vars

\* C21: run_slice returns ok exactly when the exit code is 0 and the
\* artifact is not empty; when it fails the artifact stays as written and
\* the stderr path is returned, the stderr file staying as written too; when
\* it succeeds no path is returned and the stderr file is deleted exactly
\* when it is empty and debug is off.
C21_RunSlice ==
    pc = "return" =>
      /\ ret.ok <=> (arg.rc = 0 /\ arg.out > 0)
      /\ ret.slice = (IF arg.out = 0 THEN "empty" ELSE "data")
      /\ ~ret.ok => /\ ret.stderr_path = "stderr"
                    /\ ret.stderr = (IF arg.err = 0 THEN "empty" ELSE "data")
      /\ ret.ok => /\ ret.stderr_path = "None"
                   /\ (ret.stderr = "absent") <=> (arg.err = 0 /\ ~arg.debug)
                   /\ ret.stderr # "absent" =>
                        ret.stderr = (IF arg.err = 0 THEN "empty" ELSE "data")

\* a tool that exits with 0 and writes nothing: a failure that leaves the
\* empty artifact and the empty stderr file on disk
C21_Witness ==
    /\ pc = "return"
    /\ arg.rc = 0 /\ arg.out = 0 /\ arg.err = 0
    /\ ~ret.ok /\ ret.slice = "empty" /\ ret.stderr = "empty"

(***************************************************************************)
(* The choice of the specification path, lines 238-262, over file names.   *)
(* A file name is the sequence of its dot-separated parts, each part after *)
(* the first with its dot; a path is a directory ("corpus" for the         *)
(* directory of the certificate, "out" for its output directory) and a     *)
(* name; files is the set of the paths at which a file exists.             *)
(***************************************************************************)
CertFiles ==
    { <<"a", ".smt2", ".alethe">>, <<"a", ".b", ".smt2", ".alethe">>,
      <<".smt2", ".alethe">> }

Path(dir, name) == [dir |-> dir, name |-> name]

\* alethe_path[:-7]
strip_alethe(fname) == SubSeq(fname, 1, Len(fname) - 1)

\* os.path.splitext(...)[0]: the last part is cut off unless it is the only
\* one (a leading dot does not start an extension)
splitext(name) == IF Len(name) >= 2 THEN SubSeq(name, 1, Len(name) - 1) ELSE name

\* line 240
base_name(fname) == splitext(strip_alethe(fname))

\* find_smt2_beside, lines 97-99
sibling(fname) == Path("corpus", strip_alethe(fname))

\* line 253
guessed(fname) == Path("corpus", Append(base_name(fname), ".smt2"))

\* find_existing_smt2_for_base, line 107
in_out_dir(fname) == Path("out", Append(base_name(fname), ".smt2"))

\* None: no file found
NoPath == Path("none", <<>>)

AllPaths == UNION {{sibling(f), guessed(f), in_out_dir(f)} : f \in CertFiles}

\* the choice with the sibling preferred to the copy in the output directory
choose_spec_sibling_first(fname, files) ==
    IF sibling(fname) \in files THEN sibling(fname)
    ELSE IF in_out_dir(fname) \in files THEN in_out_dir(fname)
    ELSE IF guessed(fname) \in files THEN guessed(fname)
    ELSE NoPath

\* lines 245-262: smt2_for_slice, NoPath when the not_found line is printed
choose_spec(fname, files) ==
    LET src == IF sibling(fname) \in files THEN sibling(fname) ELSE NoPath
        dest == IF in_out_dir(fname) \in files THEN in_out_dir(fname) ELSE NoPath
    IN  IF dest # NoPath THEN dest
        ELSE IF src # NoPath /\ src \in files THEN src
        ELSE IF guessed(fname) \in files THEN guessed(fname)
        ELSE NoPath

InitResolve ==
    /\ Idle
    /\ pc = "call"
    /\ arg \in [fname : CertFiles, files : SUBSET AllPaths]
    /\ ret = <<>>

CallResolve ==
    /\ pc = "call"
    /\ ret' = [path |-> choose_spec(arg.fname, arg.files)]
    /\ pc' = "return"
    /\ UNCHANGED <<arg, unreadable, lost, carcara, no_move, fsvars, stdout, locals, run, kills, history>>

NextResolve == CallResolve

SpecResolve == InitResolve /\ [][NextResolve]_vars

\* C22: the path chosen is the copy in the output directory when it exists;
\* otherwise the sibling (the certificate's name without its last suffix)
\* when it exists; otherwise the guess (base name plus specification
\* extension) when it exists; otherwise none.
C22_ResolutionOrder ==
    pc = "return" =>
      LET out == Path("out", Append(base_name(arg.fname), ".smt2"))
          sib == Path("corpus", SubSeq(arg.fname, 1, Len(arg.fname) - 1))
          gue == Path("corpus", Append(base_name(arg.fname), ".smt2"))
      IN  /\ out \in arg.files => ret.path = out
          /\ out \notin arg.files /\ sib \in arg.files => ret.path = sib
          /\ out \notin arg.files /\ sib \notin arg.files /\ gue \in arg.files
               => ret.path = gue
          /\ out \notin arg.files /\ sib \notin arg.files /\ gue \notin arg.files
               => ret.path = NoPath

\* the guess chosen: a certificate whose sibling and guess are two paths,
\* no copy in the output directory, no sibling, and the guess present
C22_Witness ==
    /\ pc = "return"
    /\ sibling(arg.fname) # guessed(arg.fname)
    /\ in_out_dir(arg.fname) \notin arg.files
    /\ sibling(arg.fname) \notin arg.files
    /\ ret.path = guessed(arg.fname)

\* C23: when the scan reaches a certificate whose specification is resolved
\* and which cannot be opened, the run goes on with an empty hole set for
\* it: it does not end there.
C23_UnreadableSkipped ==
    [][(/\ pc = "cert"
        /\ ci \in Certs
        /\ ci \in unreadable
        /\ ResolveSpec(ci) # "none"
        /\ pc' # "dead") =>
          /\ pc' \in {"hole", "cert"}
          /\ holes' = <<>>]_vars

\* the lines that left the process
Emitted == SubSeq(stdout, 1, Len(stdout) - lost)

\* C24: whatever happens once the driver is about to append the record of a
\* freshly elaborated job (the append completes, it raises, or the process
\* is killed), the status line of that job has been emitted.
C24_LineBeforeAppend ==
    [][pc = "append" =>
         \E i \in 1..(Len(stdout') - lost') :
            /\ stdout'[i].alethe = result.alethe
            /\ stdout'[i].hole = result.hole
            /\ ~stdout'[i].cached]_vars

\* C25: whenever the slice tool is being invoked, a file exists at the
\* specification path it was given.
C25_SliceSpecExists ==
    pc = "slicing" => isfile(smt2_for_slice, ci)

\* the start of the text of every record of job j
JobKey(j) == CertName[j[1]] \o <<":">> \o j[2] \o <<":">>

\* the records of job j that can be read in the ledger
RecordsOf(j) ==
    {i \in 1..Len(ParseArray(ledger.bytes).items) :
        IsPrefix(JobKey(j), ParseArray(ledger.bytes).items[i])}

\* C26: at the end of a run that reached the end of main, every job whose
\* elaboration log is in the output tree has a record in the ledger.
C26_LogsRecorded ==
    pc = "done" =>
      \A j \in Jobs : log_file[j].exists => (ledger.exists /\ RecordsOf(j) # {})

\* C27: the ledger never holds two records of one job, and, as long as no
\* append was cut short by a kill, it holds as many records as appends have
\* completed.
C27_OneRecordPerCompletedAppend ==
    /\ \A j \in Jobs : Cardinality(RecordsOf(j)) <= 1
    /\ interrupted = "no" =>
         /\ ~ledger.exists => completed = <<>>
         /\ ledger.exists =>
              /\ ParseArray(ledger.bytes).ok
              /\ Len(ParseArray(ledger.bytes).items) = Len(completed)

(***************************************************************************)
(* The offset at which append_json_array splices, lines 69-91, for files   *)
(* that hold a JSON array followed by white space: short enough for the    *)
(* first chunk to hold the whole file, long enough for the first chunk to  *)
(* start at any of the first bytes of the file (inside a multi-byte        *)
(* character among them), or so long that the scan needs several chunks.   *)
(***************************************************************************)
MaxStart == 6

Pad(k) == [i \in 1..k |-> "n"]

\* the lengths of white space after a text: none, what makes the first chunk
\* start at byte d of the file, and more than two chunks
PadLens(text) ==
    {0, 2 * step + 2} \cup {step + d - Len(text) : d \in 0..MaxStart}

InitSplice ==
    /\ Idle
    /\ pc = "call"
    /\ \E es \in SeqsUpTo(SampleEntries, MaxRecs), nl \in BOOLEAN, tail \in BOOLEAN :
         \E k \in PadLens(ArrayText(es, nl, tail)) :
            /\ k >= 0
            /\ arg = [entry |-> Rec(1, <<"h">>),
                      file |-> [exists |-> TRUE,
                                bytes |-> ArrayText(es, nl, tail) \o Pad(k)]]
    /\ ret = <<>>

CallSplice ==
    /\ pc = "call"
    /\ ret' = AppendPlan(arg.file, arg.entry)
    /\ pc' = "return"
    /\ UNCHANGED <<arg, unreadable, lost, carcara, no_move, fsvars, stdout, locals, run,
                   kills, history>>

NextSplice == CallSplice

SpecSplice == InitSplice /\ [][NextSplice]_vars

\* C28: in the fast path the record is spliced at the byte offset of the
\* last closing bracket of the file.
C28_SpliceAtLastBracket ==
    pc = "return" =>
      /\ ~ret.raises
      /\ ret.at = rfind(arg.file.bytes, "]")

=============================================================================
